---- MODULE Spec2Model ----
(***************************************************************************)
(* State-machine model of src/telegrambot.py: the homework-status polling  *)
(* bot (check_tokens, send_message, get_api_answer, check_response,        *)
(* parse_status and the driver loop of main).                              *)
(*                                                                         *)
(* Conventions.  Time is counted in ticks, TicksPerSec ticks to a second,  *)
(* so that a float time.time() with a fractional part and the rounding of  *)
(* int(round(timestamp)) are both represented.  The Cyrillic string        *)
(* literals of the source are written transliterated to ASCII, one model   *)
(* string per source literal.  JSON / Python values are tagged records.    *)
(***************************************************************************)
EXTENDS Integers, Sequences, FiniteSets, TLC

(* ------------------------------ bounds --------------------------------- *)
\* MaxCycles: fetches modelled.  MaxLatency: ticks a request may take (it takes
\* none or that many).  MaxStartClock: the clock at process start is 0 or this.
MaxCycles == 2
MaxLatency == 1
MaxStartClock == 1
TicksPerSec == 2

(* ------------------------- program constants --------------------------- *)
RETRY_PERIOD == 600
HTTP_OK == 200

(* --------------------------- Python values ----------------------------- *)
None == [tag |-> "null"]
Str(s) == [tag |-> "str", s |-> s]
Num(n) == [tag |-> "num", n |-> n]
List(items) == [tag |-> "list", items |-> items]
Dict(d) == [tag |-> "dict", d |-> d]
EmptyMap == [k \in {} |-> None]

\* bool(v): None, "", 0, [] and {} are falsy, everything else is truthy.
Truthy(v) ==
    CASE v.tag = "null" -> FALSE
      [] v.tag = "str" -> v.s # ""
      [] v.tag = "num" -> v.n # 0
      [] v.tag = "list" -> v.items # <<>>
      [] v.tag = "dict" -> DOMAIN v.d # {}

\* type(v).__name__
TypeName(v) ==
    CASE v.tag = "null" -> "NoneType"
      [] v.tag = "str" -> "str"
      [] v.tag = "num" -> "int"
      [] v.tag = "list" -> "list"
      [] v.tag = "dict" -> "dict"

\* format(v) as an f-string field renders it, for the scalar values used here.
PyStr(v) ==
    CASE v.tag = "null" -> "None"
      [] v.tag = "str" -> v.s
      [] v.tag = "num" -> ToString(v.n)
      [] v.tag = "list" -> "[...]"
      [] v.tag = "dict" -> "{...}"

\* The outcome of a call: a returned value or a raised exception.
Return(v) == [raised |-> FALSE, val |-> v, kind |-> "", text |-> ""]
Raise(kind, text) == [raised |-> TRUE, val |-> None, kind |-> kind, text |-> text]

\* str(error): KeyError renders the repr of its argument, the others the text.
ExcStr(kind, text) == IF kind = "KeyError" THEN "'" \o text \o "'" ELSE text

(* ------------------------- HOMEWORK_VERDICTS --------------------------- *)
VerdictKeys == {"approved", "reviewing", "rejected"}
HOMEWORK_VERDICTS ==
    [k \in VerdictKeys |->
        CASE k = "approved" -> "Rabota proverena: revyueru vsyo ponravilos. Ura!"
          [] k = "reviewing" -> "Rabota vzyata na proverku revyuerom."
          [] k = "rejected" -> "Rabota proverena: u revyuera est zamechaniya."]

\* The module-level dict object itself: a mutable global, read by parse_status.
VARIABLE verdicts

(* ----------------------------- secrets --------------------------------- *)
\* os.getenv gives None for an unset variable; a set one is a non-empty string.
\* The bot token is further either of the shape the bot library accepts or not.
Absent == "absent"
IsSet(secret) == secret # Absent

check_tokens_always(p, t, c) == TRUE

check_tokens_all(p, t, c) == IsSet(p) /\ IsSet(t) /\ IsSet(c)

check_tokens(p, t, c) == IsSet(p) \/ IsSet(t) \/ IsSet(c)

\* telegram.Bot(token=...): the constructor validates the token and raises
\* (InvalidToken, or TypeError on None) unless it is a well-formed token.
BotConstructs(t) == t = "valid"

(* --------------------------- send_message ------------------------------ *)
SendOutcomes == {"ok", "TelegramError"}

send_message_propagating(transport) ==
    IF transport = "TelegramError" THEN "raise" ELSE "return"

\* The try/except of send_message: bot.send_message either succeeds or raises
\* telegram.TelegramError, which is logged and swallowed.
send_message(transport) ==
    IF transport = "TelegramError" THEN "return" ELSE "return"

(* -------------------------- get_api_answer ----------------------------- *)
\* int(round(t)) for t = ticks / TicksPerSec: round half to even.
RoundHalfEven(ticks) ==
    LET q == ticks \div TicksPerSec
        r == ticks % TicksPerSec
    IN  IF 2 * r < TicksPerSec THEN q
        ELSE IF 2 * r > TicksPerSec THEN q + 1
        ELSE IF q % 2 = 0 THEN q ELSE q + 1

FromDate(timestamp) == RoundHalfEven(timestamp)

NotJson == [tag |-> "notjson"]

\* net: what requests.get met: a transport failure, or a status code and a
\* body that decodes to net.body (NotJson when it does not decode).  For a
\* body that does not decode, .json() raises the JSONDecodeError of the json
\* package requests was built on: the standard library's, which line 93
\* catches, or simplejson's, which it does not.
get_api_answer(timestamp, net) ==
    IF net.transport # "ok"
    THEN Raise("Exception",
               "Oshibka napravleniya zaprosa k API \"Yandeks.Domashka\": "
                   \o net.transport \o ".")
    ELSE IF net.status # HTTP_OK
    THEN Raise("Exception",
               "Oshibka pri zaprose k API \"Yandeks.Domashka\". Status kod: "
                   \o ToString(net.status))
    ELSE IF net.body = NotJson /\ net.decoder = "json"
    \* raise JSONDecodeError(error_message) lacks the doc and pos arguments
    THEN Raise("TypeError",
               "__init__() missing 2 required positional arguments: 'doc' and 'pos'")
    ELSE IF net.body = NotJson
    THEN Raise("JSONDecodeError", "Expecting value: line 1 column 1 (char 0)")
    ELSE Return(net.body)

(* -------------------------- check_response ----------------------------- *)
check_response_empty_raises(response) ==
    IF response.tag # "dict"
    THEN Raise("TypeError", "Poluchennyi otvet ne yavlyaetsya slovarem.")
    ELSE IF "homeworks" \notin DOMAIN response.d
    THEN Raise("KeyError", "V otvete otsutstvuet informatsiya o domashnikh zadaniyakh.")
    ELSE IF "current_date" \notin DOMAIN response.d
    THEN Raise("KeyError", "V otvete otsutstvuet informatsiya o tekushchei date.")
    ELSE IF response.d["homeworks"].tag # "list"
    THEN Raise("TypeError", "Znachenie klyucha homeworks ne yavlyaetsya spiskom.")
    ELSE IF response.d["homeworks"].items = <<>>
    THEN Raise("IndexError", "list index out of range")
    ELSE Return(response.d["homeworks"].items[1])

check_response_unchecked(response) ==
    IF response.tag = "dict" /\ "homeworks" \in DOMAIN response.d
       /\ response.d["homeworks"].tag = "list"
       /\ response.d["homeworks"].items # <<>>
    THEN Return(response.d["homeworks"].items[1])
    ELSE Return(None)

check_response_date_first(response) ==
    IF response.tag # "dict"
    THEN Raise("TypeError", "Poluchennyi otvet ne yavlyaetsya slovarem.")
    ELSE IF "current_date" \notin DOMAIN response.d
    THEN Raise("KeyError", "V otvete otsutstvuet informatsiya o tekushchei date.")
    ELSE IF "homeworks" \notin DOMAIN response.d
    THEN Raise("KeyError", "V otvete otsutstvuet informatsiya o domashnikh zadaniyakh.")
    ELSE IF response.d["homeworks"].tag # "list"
    THEN Raise("TypeError", "Znachenie klyucha homeworks ne yavlyaetsya spiskom.")
    ELSE IF response.d["homeworks"].items = <<>>
    THEN Return(None)
    ELSE Return(response.d["homeworks"].items[1])

check_response(response) ==
    IF response.tag # "dict"
    THEN Raise("TypeError", "Poluchennyi otvet ne yavlyaetsya slovarem.")
    ELSE IF "homeworks" \notin DOMAIN response.d
    THEN Raise("KeyError", "V otvete otsutstvuet informatsiya o domashnikh zadaniyakh.")
    ELSE IF "current_date" \notin DOMAIN response.d
    THEN Raise("KeyError", "V otvete otsutstvuet informatsiya o tekushchei date.")
    ELSE IF response.d["homeworks"].tag # "list"
    THEN Raise("TypeError", "Znachenie klyucha homeworks ne yavlyaetsya spiskom.")
    ELSE IF response.d["homeworks"].items = <<>>
    THEN Return(None)
    ELSE Return(response.d["homeworks"].items[1])

(* --------------------------- parse_status ------------------------------ *)
StatusPrefix == "Izmenilsya status proverki raboty \""

\* homework.get('homework_name'): None when the key is missing.
DictGet(d, key) == IF key \in DOMAIN d THEN d[key] ELSE None

parse_status_falsy_name(homework) ==
    IF homework.tag # "dict"
    THEN Raise("AttributeError",
               "'" \o TypeName(homework) \o "' object has no attribute 'get'")
    ELSE IF ~Truthy(DictGet(homework.d, "homework_name"))
    THEN Raise("KeyError", "Klyuch \"homework_name\" otsutstvuet.")
    ELSE IF "status" \notin DOMAIN homework.d
    THEN Raise("KeyError", "Klyuch \"status\" otsutstvuet.")
    ELSE IF ~(homework.d["status"].tag = "str"
              /\ homework.d["status"].s \in DOMAIN verdicts)
    THEN Raise("SystemError", "Neizvestnyi status")
    ELSE Return(Str(StatusPrefix \o PyStr(homework.d["homework_name"]) \o "\". "
                    \o verdicts[homework.d["status"].s]))

parse_status(homework) ==
    IF homework.tag # "dict"
    THEN Raise("AttributeError",
               "'" \o TypeName(homework) \o "' object has no attribute 'get'")
    ELSE IF DictGet(homework.d, "homework_name") = None
    THEN Raise("KeyError", "Klyuch \"homework_name\" otsutstvuet.")
    ELSE IF "status" \notin DOMAIN homework.d
    THEN Raise("KeyError", "Klyuch \"status\" otsutstvuet.")
    ELSE IF homework.d["status"].tag \in {"list", "dict"}
    \* an unhashable status cannot be looked up in a dict
    THEN Raise("TypeError",
               "unhashable type: '" \o TypeName(homework.d["status"]) \o "'")
    ELSE IF ~(homework.d["status"].tag = "str"
              /\ homework.d["status"].s \in DOMAIN verdicts)
    THEN Raise("SystemError", "Neizvestnyi status")
    ELSE Return(Str(StatusPrefix \o PyStr(homework.d["homework_name"]) \o "\". "
                    \o verdicts[homework.d["status"].s]))

FailurePrefix == "Sboi v rabote programmy: "
StartupText == "Telegram bot zapushchen."

(* ------------------------- modelled inputs ----------------------------- *)
HwName == "homework_name" :> Str("hw1")
HwApproved == Dict(HwName @@ ("status" :> Str("approved")))
HwUnknown == Dict(HwName @@ ("status" :> Str("unknown")))
HwEmpty == Dict(EmptyMap)

\* Candidate first elements of homeworks: complete records, records lacking
\* or nulling a field, and elements that are not records at all.
HomeworkValues ==
    { Dict(HwName @@ ("status" :> Str(k))) : k \in VerdictKeys }
    \cup { HwUnknown, HwEmpty,
           Dict("status" :> Str("approved")),
           Dict("status" :> Str("unknown")),
           Dict(("homework_name" :> None) @@ ("status" :> Str("approved"))),
           Dict(HwName),
           Dict(HwName @@ ("status" :> None)),
           Dict(("homework_name" :> Str("")) @@ ("status" :> Str("rejected"))),
           Dict(HwName @@ ("status" :> List(<<>>))),
           Str("x"), Num(0), None }

HomeworkLists ==
    { <<>> } \cup { <<h>> : h \in HomeworkValues }
    \cup { <<HwApproved, HwUnknown>>, <<HwUnknown, HwApproved>>,
           <<HwEmpty, HwApproved>> }

CurrentDate == "current_date" :> Num(100)

Bodies ==
    { Dict(("homeworks" :> List(l)) @@ CurrentDate) : l \in HomeworkLists }
    \cup { List(<<>>), Str("oops"),
           Dict(EmptyMap),
           Dict(CurrentDate),
           Dict("homeworks" :> List(<<>>)),
           Dict("homeworks" :> List(<<HwApproved>>)),
           Dict(("homeworks" :> Str("x")) @@ CurrentDate),
           Dict(("homeworks" :> HwApproved) @@ CurrentDate),
           Dict(("homeworks" :> None) @@ CurrentDate),
           Dict("homeworks" :> Str("x")) }

NetOutcomes ==
    { [transport |-> "ConnectionError", status |-> 0, body |-> NotJson,
       decoder |-> "json"] }
    \cup { [transport |-> "ok", status |-> c, body |-> NotJson, decoder |-> "json"] :
              c \in {HTTP_OK, 404} }
    \cup { [transport |-> "ok", status |-> HTTP_OK, body |-> NotJson,
             decoder |-> "simplejson"] }
    \cup { [transport |-> "ok", status |-> HTTP_OK, body |-> b, decoder |-> "json"] :
              b \in Bodies }

(* ------------------------------ state ---------------------------------- *)
VARIABLES
    PRACTICUM_TOKEN, TELEGRAM_TOKEN, TELEGRAM_CHAT_ID,  \* module globals, lines 13-15
    pc,          \* position of main
    clock,       \* time.time(), in ticks
    timestamp,   \* the time cursor of main, in ticks
    response, homework, message,   \* locals of the loop body
    error,       \* the exception raised in the current cycle, if any
    cycle,       \* number of fetches attempted so far
    api_reply,   \* what requests.get met in the latest fetch
    fetch_ts,    \* the timestamp argument of the latest get_api_answer call
    from_date,   \* params['from_date'] of the latest fetch
    sent,        \* send attempts of the current cycle, in order
    startup,     \* send attempts made before the loop
    parsed,      \* parse_status was called in the current cycle
    sinceSleep,  \* fetches attempted since the latest sleep
    sinceFetch,  \* sleeps since the latest fetch
    lastSleep,   \* seconds of the latest sleep
    prev         \* summary of the cycle before the current one

vars == << PRACTICUM_TOKEN, TELEGRAM_TOKEN, TELEGRAM_CHAT_ID, pc, clock, timestamp,
           response, homework, message, error, cycle, fetch_ts, from_date, sent,
           startup, parsed, sinceSleep, sinceFetch, lastSleep, prev, verdicts,
           api_reply >>

secrets == << PRACTICUM_TOKEN, TELEGRAM_TOKEN, TELEGRAM_CHAT_ID >>
locals == << response, homework, message >>

NoError == [kind |-> "", text |-> ""]
NoValue == [tag |-> "unbound"]
NoPrev == [cycle |-> 0, raised |-> FALSE, timestamp |-> -1, from_date |-> -1,
           sendFailed |-> FALSE]

Init ==
    /\ PRACTICUM_TOKEN \in {Absent, "set"}
    /\ TELEGRAM_TOKEN \in {Absent, "malformed", "valid"}
    /\ TELEGRAM_CHAT_ID \in {Absent, "set"}
    /\ pc = "start"
    /\ clock \in {0, MaxStartClock}
    /\ timestamp = -1
    /\ response = NoValue /\ homework = NoValue /\ message = NoValue
    /\ error = NoError
    /\ cycle = 0
    /\ fetch_ts = -1
    /\ api_reply = NoValue
    /\ verdicts = HOMEWORK_VERDICTS
    /\ from_date = -1
    /\ sent = <<>>
    /\ startup = <<>>
    /\ parsed = FALSE
    /\ sinceSleep = 0
    /\ sinceFetch = 0
    /\ lastSleep = 0
    /\ prev = NoPrev

Attempt(site, text, transport) == [site |-> site, text |-> text, transport |-> transport]

(* ------------------------------ main ----------------------------------- *)
\* lines 131-132: if not check_tokens(): exit()
CheckTokens ==
    /\ pc = "start"
    /\ pc' = IF check_tokens(PRACTICUM_TOKEN, TELEGRAM_TOKEN, TELEGRAM_CHAT_ID)
             THEN "make_bot" ELSE "exited"
    /\ UNCHANGED << secrets, verdicts, api_reply, clock, timestamp, locals, error, cycle, fetch_ts, from_date, sent,
                    startup, parsed, sinceSleep, sinceFetch, lastSleep, prev >>

\* line 133: bot = telegram.Bot(token=TELEGRAM_TOKEN); an exception here is
\* outside every try block and ends the process.
MakeBot ==
    /\ pc = "make_bot"
    /\ pc' = IF BotConstructs(TELEGRAM_TOKEN) THEN "startup_send" ELSE "crashed"
    /\ UNCHANGED << secrets, verdicts, api_reply, clock, timestamp, locals, error, cycle, fetch_ts, from_date, sent,
                    startup, parsed, sinceSleep, sinceFetch, lastSleep, prev >>

StartupSend_fatal ==
    /\ pc = "startup_send"
    /\ \E tr \in SendOutcomes :
          /\ startup' = Append(startup, Attempt("startup", StartupText, tr))
          /\ pc' = IF tr = "TelegramError" THEN "crashed" ELSE "init_timestamp"
    /\ UNCHANGED << secrets, verdicts, api_reply, clock, timestamp, locals, error,
                    cycle, fetch_ts, from_date, sent, parsed, sinceSleep, sinceFetch,
                    lastSleep, prev >>

\* line 134: send_message(bot, 'Telegram bot zapushchen.')
StartupSend ==
    /\ pc = "startup_send"
    /\ \E tr \in SendOutcomes :
          /\ startup' = Append(startup, Attempt("startup", StartupText, tr))
          /\ pc' = IF send_message(tr) = "raise" THEN "crashed" ELSE "init_timestamp"
    /\ UNCHANGED << secrets, verdicts, api_reply, clock, timestamp, locals, error, cycle, fetch_ts, from_date, sent,
                    parsed, sinceSleep, sinceFetch, lastSleep, prev >>

\* line 135: timestamp = time.time()
InitTimestamp ==
    /\ pc = "init_timestamp"
    /\ timestamp' = clock
    /\ pc' = "fetch"
    /\ UNCHANGED << secrets, verdicts, api_reply, clock, locals, error, cycle, fetch_ts, from_date, sent, startup,
                    parsed, sinceSleep, sinceFetch, lastSleep, prev >>

\* line 138: response = get_api_answer(timestamp).  A new cycle begins: the
\* finished cycle is summarised in prev and the per-cycle records start afresh
\* (the loop body never reads a local before assigning it in the same cycle).
Fetch ==
    /\ pc = "fetch"
    /\ cycle < MaxCycles
    /\ \E net \in NetOutcomes, latency \in {0, MaxLatency} :
          LET r == get_api_answer(timestamp, net) IN
          /\ clock' = clock + latency
          /\ fetch_ts' = timestamp
          /\ from_date' = FromDate(timestamp)
          /\ api_reply' = net
          /\ IF r.raised
             THEN /\ error' = [kind |-> r.kind, text |-> r.text]
                  /\ response' = NoValue
                  /\ pc' = "except"
             ELSE /\ error' = NoError
                  /\ response' = r.val
                  /\ pc' = "check"
    /\ cycle' = cycle + 1
    /\ prev' = IF cycle = 0 THEN NoPrev
               ELSE [cycle |-> cycle, raised |-> error # NoError,
                     timestamp |-> fetch_ts, from_date |-> from_date,
                     sendFailed |-> \E i \in 1..Len(sent) : sent[i].transport # "ok"]
    /\ sent' = <<>>
    /\ parsed' = FALSE
    /\ homework' = NoValue /\ message' = NoValue
    /\ sinceSleep' = sinceSleep + 1
    /\ sinceFetch' = 0
    /\ UNCHANGED << secrets, verdicts, timestamp, startup, lastSleep >>

\* line 139: homework = check_response(response); line 140: if homework.
\* The else branch (line 144) only logs.
Check ==
    /\ pc = "check"
    /\ LET r == check_response(response) IN
          IF r.raised
          THEN /\ error' = [kind |-> r.kind, text |-> r.text]
               /\ pc' = "except"
               /\ UNCHANGED homework
          ELSE /\ homework' = r.val
               /\ pc' = IF Truthy(r.val) THEN "parse" ELSE "advance"
               /\ UNCHANGED error
    /\ UNCHANGED << secrets, verdicts, api_reply, clock, timestamp, response, message, cycle, fetch_ts,
                    from_date, sent, startup, parsed, sinceSleep, sinceFetch,
                    lastSleep, prev >>

\* line 141: message = parse_status(homework)
Parse ==
    /\ pc = "parse"
    /\ parsed' = TRUE
    /\ LET r == parse_status(homework) IN
          IF r.raised
          THEN /\ error' = [kind |-> r.kind, text |-> r.text]
               /\ pc' = "except"
               /\ UNCHANGED message
          ELSE /\ message' = r.val
               /\ pc' = "notify"
               /\ UNCHANGED error
    /\ UNCHANGED << secrets, verdicts, api_reply, clock, timestamp, response, homework, cycle, fetch_ts,
                    from_date, sent, startup, sinceSleep, sinceFetch, lastSleep, prev >>

Notify_escalating ==
    /\ pc = "notify"
    /\ \E tr \in SendOutcomes :
          /\ sent' = Append(sent, Attempt("status", message.s, tr))
          /\ IF tr = "TelegramError"
             THEN /\ error' = [kind |-> tr, text |-> tr]
                  /\ pc' = "except"
             ELSE /\ pc' = "advance"
                  /\ UNCHANGED error
    /\ UNCHANGED << secrets, verdicts, api_reply, clock, timestamp, locals, cycle,
                    fetch_ts, from_date, startup, parsed, sinceSleep, sinceFetch,
                    lastSleep, prev >>

\* line 142: send_message(bot, message); an exception leaving it would be
\* caught by the except clause of line 146.
Notify ==
    /\ pc = "notify"
    /\ \E tr \in SendOutcomes :
          /\ sent' = Append(sent, Attempt("status", message.s, tr))
          /\ IF send_message(tr) = "raise"
             THEN /\ error' = [kind |-> tr, text |-> tr]
                  /\ pc' = "except"
             ELSE /\ pc' = "advance"
                  /\ UNCHANGED error
    /\ UNCHANGED << secrets, verdicts, api_reply, clock, timestamp, locals, cycle, fetch_ts, from_date,
                    startup, parsed, sinceSleep, sinceFetch, lastSleep, prev >>

Advance_skipped ==
    /\ pc = "advance"
    /\ pc' = "finally"
    /\ UNCHANGED << secrets, verdicts, api_reply, clock, timestamp, locals, error,
                    cycle, fetch_ts, from_date, sent, startup, parsed, sinceSleep,
                    sinceFetch, lastSleep, prev >>

\* line 145: timestamp = time.time(), the last statement of the try block
Advance ==
    /\ pc = "advance"
    /\ timestamp' = clock
    /\ pc' = "finally"
    /\ UNCHANGED << secrets, verdicts, api_reply, clock, locals, error, cycle, fetch_ts, from_date, sent,
                    startup, parsed, sinceSleep, sinceFetch, lastSleep, prev >>

\* Variants of the except clause used to test the properties below.
ExceptHandler_advancing ==
    /\ pc = "except"
    /\ message' = Str(FailurePrefix \o ExcStr(error.kind, error.text))
    /\ timestamp' = clock
    /\ \E tr \in SendOutcomes :
          /\ sent' = Append(sent, Attempt("failure", message'.s, tr))
          /\ pc' = IF send_message(tr) = "raise" THEN "finally_raising" ELSE "finally"
    /\ UNCHANGED << secrets, verdicts, api_reply, clock, response, homework, error, cycle,
                    fetch_ts, from_date, startup, parsed, sinceSleep, sinceFetch,
                    lastSleep, prev >>

ExceptHandler_no_sleep ==
    /\ pc = "except"
    /\ message' = Str(FailurePrefix \o ExcStr(error.kind, error.text))
    /\ \E tr \in SendOutcomes :
          /\ sent' = Append(sent, Attempt("failure", message'.s, tr))
          /\ pc' = IF send_message(tr) = "raise" THEN "crashed" ELSE "fetch"
    /\ UNCHANGED << secrets, verdicts, api_reply, clock, timestamp, response, homework, error, cycle,
                    fetch_ts, from_date, startup, parsed, sinceSleep, sinceFetch,
                    lastSleep, prev >>

ExceptHandler_log_only ==
    /\ pc = "except"
    /\ message' = Str(FailurePrefix \o ExcStr(error.kind, error.text))
    /\ pc' = "finally"
    /\ UNCHANGED << secrets, verdicts, api_reply, clock, timestamp, response, homework, error, cycle,
                    fetch_ts, from_date, sent, startup, parsed, sinceSleep,
                    sinceFetch, lastSleep, prev >>

ExceptHandler_reraising ==
    /\ pc = "except"
    /\ message' = Str(FailurePrefix \o ExcStr(error.kind, error.text))
    /\ \E tr \in SendOutcomes :
          /\ sent' = Append(sent, Attempt("failure", message'.s, tr))
          /\ pc' = "finally_raising"
    /\ UNCHANGED << secrets, verdicts, api_reply, clock, timestamp, response, homework, error, cycle,
                    fetch_ts, from_date, startup, parsed, sinceSleep, sinceFetch,
                    lastSleep, prev >>

\* lines 146-149: except Exception as error: build the failure message, log
\* it, send it.  An exception leaving the handler runs the finally clause and
\* then leaves main.
ExceptHandler ==
    /\ pc = "except"
    /\ message' = Str(FailurePrefix \o ExcStr(error.kind, error.text))
    /\ \E tr \in SendOutcomes :
          /\ sent' = Append(sent, Attempt("failure", message'.s, tr))
          /\ pc' = IF send_message(tr) = "raise" THEN "finally_raising" ELSE "finally"
    /\ UNCHANGED << secrets, verdicts, api_reply, clock, timestamp, response, homework, error, cycle,
                    fetch_ts, from_date, startup, parsed, sinceSleep, sinceFetch,
                    lastSleep, prev >>

Sleep_advancing ==
    /\ pc \in {"finally", "finally_raising"}
    /\ clock' = clock + RETRY_PERIOD * TicksPerSec
    /\ timestamp' = clock'
    /\ lastSleep' = RETRY_PERIOD
    /\ sinceFetch' = sinceFetch + 1
    /\ sinceSleep' = 0
    /\ pc' = IF pc = "finally" THEN "fetch" ELSE "crashed"
    /\ UNCHANGED << secrets, verdicts, api_reply, locals, error, cycle, fetch_ts,
                    from_date, sent, startup, parsed, prev >>

\* lines 150-151: finally: time.sleep(RETRY_PERIOD), then the next iteration
\* of while True (or the propagation of a pending exception out of main).
Sleep ==
    /\ pc \in {"finally", "finally_raising"}
    /\ clock' = clock + RETRY_PERIOD * TicksPerSec
    /\ lastSleep' = RETRY_PERIOD
    /\ sinceFetch' = sinceFetch + 1
    /\ sinceSleep' = 0
    /\ pc' = IF pc = "finally" THEN "fetch" ELSE "crashed"
    /\ UNCHANGED << secrets, verdicts, api_reply, timestamp, locals, error, cycle, fetch_ts, from_date,
                    sent, startup, parsed, prev >>

Next ==
    \/ CheckTokens
    \/ MakeBot
    \/ StartupSend
    \/ InitTimestamp
    \/ Fetch
    \/ Check
    \/ Parse
    \/ Notify
    \/ Advance
    \/ ExceptHandler
    \/ Sleep

Spec == Init /\ [][Next]_vars

\* main is one sequential thread of blocking calls: whenever a next statement
\* exists it is eventually executed.
FairSpec == Spec /\ WF_vars(Next)

(* --------------------------- type invariant ---------------------------- *)
TypeOK ==
    /\ pc \in {"start", "exited", "make_bot", "crashed", "startup_send",
               "init_timestamp", "fetch", "check", "parse", "notify", "advance",
               "except", "finally", "finally_raising"}
    /\ cycle \in 0..MaxCycles
    /\ clock \in Nat
    /\ timestamp \in Nat \cup {-1}
    /\ Len(sent) <= 2
    /\ Len(startup) <= 1

(* ------------------------- shared predicates --------------------------- *)
Raised == error # NoError
AllAbsent == ~IsSet(PRACTICUM_TOKEN) /\ ~IsSet(TELEGRAM_TOKEN) /\ ~IsSet(TELEGRAM_CHAT_ID)
Terminated == pc \in {"exited", "crashed"}
\* the current cycle has run its try/except part (it is sleeping or has slept)
CycleOver == cycle >= 1 /\ pc \in {"finally", "finally_raising", "fetch"}
SitesSent == { sent[i].site : i \in 1..Len(sent) }
SomeSendFailed ==
    \/ \E i \in 1..Len(sent) : sent[i].transport = "TelegramError"
    \/ \E i \in 1..Len(startup) : startup[i].transport = "TelegramError"

HasKeys(v) == v.tag = "dict" /\ {"homeworks", "current_date"} \subseteq DOMAIN v.d
WellFormed(v) == HasKeys(v) /\ v.d["homeworks"].tag = "list"
Fetched(v) == v # NoValue
Malformed(v) == Fetched(v) /\ ~WellFormed(v)
EmptyHomeworks(v) == WellFormed(v) /\ v.d["homeworks"].items = <<>>
NonEmptyHomeworks(v) == WellFormed(v) /\ v.d["homeworks"].items # <<>>

C2_OneSleepPerCycle ==
    /\ sinceSleep <= 1
    /\ sinceFetch <= 1
    /\ (pc = "fetch" /\ cycle >= 1) =>
          (sinceFetch = 1 /\ sinceSleep = 0 /\ lastSleep = RETRY_PERIOD)
    /\ (pc \in {"check", "parse", "notify", "advance", "except", "finally",
                "finally_raising"}) => (sinceSleep = 1 /\ sinceFetch = 0)
    /\ cycle >= 2 => clock >= prev.timestamp + RETRY_PERIOD * TicksPerSec

C2_Witness ==
    pc = "fetch" /\ cycle >= 1 /\ Raised /\ sinceFetch = 1 /\ sinceSleep = 0

(* ------------------------------- C3 ------------------------------------ *)
\* C3: a TelegramError in a send (startup, status or failure notification) is
\* swallowed by send_message: the message is not sent again, the process does
\* not stop, a failed status send is not turned into an error of the cycle,
\* and the loop goes on to its sleep and its next fetch.
C3_SendFailureContained ==
    /\ pc # "finally_raising"
    /\ Len(startup) <= 1
    /\ \A i, j \in 1..Len(sent) : sent[i].site = sent[j].site => i = j
    /\ SomeSendFailed =>
          /\ ~Terminated
          /\ ENABLED Next \/ (pc = "fetch" /\ cycle = MaxCycles)
    /\ (\E i \in 1..Len(sent) :
            sent[i].site = "status" /\ sent[i].transport = "TelegramError") =>
          (~Raised /\ Len(sent) = 1 /\ pc \in {"advance", "finally", "fetch"})
    /\ (SomeSendFailed /\ pc = "fetch" /\ cycle >= 1) => sinceFetch = 1

C3_Witness ==
    /\ cycle = 2
    /\ prev.sendFailed
    /\ startup # <<>> /\ startup[1].transport = "TelegramError"

(* ------------------------------- C4 ------------------------------------ *)
\* C4: with all three secrets absent the process exits without a fetch, a
\* send or an entry into the loop.
C4_NoSecretsNoNetwork ==
    AllAbsent =>
        /\ pc \in {"start", "exited"}
        /\ cycle = 0 /\ fetch_ts = -1 /\ timestamp = -1
        /\ startup = <<>> /\ sent = <<>>

C4_Witness == AllAbsent /\ pc = "exited"

(* ------------------------------- C5 ------------------------------------ *)
AnySecret == ~AllAbsent

C6_EmptyListIsSilent ==
    (EmptyHomeworks(response) /\ pc # "check") =>
        /\ homework = None
        /\ ~Raised
        /\ ~parsed
        /\ sent = <<>>
        /\ pc \in {"advance", "finally", "fetch"}

C6_Witness ==
    EmptyHomeworks(response) /\ pc = "fetch" /\ cycle >= 1 /\ sent = <<>>

(* ------------------------------- C7 ------------------------------------ *)
\* The spec's SchemaError is what check_response raises: TypeError or KeyError.
SchemaErrorKinds == {"TypeError", "KeyError"}

\* C7: for every malformed body (not a mapping, homeworks missing,
\* current_date missing, homeworks not a list) check_response raises a schema
\* error, parse_status is not called in that cycle and no status notification
\* is sent.
C7_MalformedBodyRejected ==
    (Malformed(response) /\ pc # "check") =>
        /\ Raised /\ error.kind \in SchemaErrorKinds
        /\ homework = NoValue
        /\ ~parsed
        /\ "status" \notin SitesSent
        /\ pc \in {"except", "finally", "fetch"}

C7_Witness ==
    /\ Malformed(response) /\ response.tag = "dict"
    /\ pc = "finally" /\ SitesSent = {"failure"}

(* ------------------------------- C8 ------------------------------------ *)
\* C8: in every cycle whose fetch returned a well-formed body with a non-empty
\* homeworks list whose first element is a record, that element is passed to
\* parse_status and the cycle makes a send attempt (status or failure
\* notification): it never ends silently, not even for a record with no fields.
C8_NonEmptyNeverSilent ==
    (NonEmptyHomeworks(response) /\ response.d["homeworks"].items[1].tag = "dict"
     /\ CycleOver) =>
        /\ homework = response.d["homeworks"].items[1]
        /\ parsed
        /\ Len(sent) >= 1

(* ------------------------------- C9 ------------------------------------ *)
\* C9: in every cycle in which the fetch, the validation or the interpretation
\* raised, the loop catches the error, makes exactly one attempt to send the
\* failure message built from that error, and sends no status notification.
C9_FailureNotifiedOnce ==
    /\ (pc = "except") => (Raised /\ sent = <<>>)
    /\ (Raised /\ CycleOver) =>
          /\ Len(sent) = 1
          /\ sent[1].site = "failure"
          /\ sent[1].text = FailurePrefix \o ExcStr(error.kind, error.text)
          /\ message = Str(sent[1].text)
    /\ Raised => "status" \notin SitesSent
    /\ (~Raised) => "failure" \notin SitesSent
    /\ cycle >= 1 => ~Terminated

C9_Witness ==
    /\ error.kind = "SystemError" /\ pc = "fetch" /\ cycle >= 1
    /\ Len(sent) = 1 /\ sent[1].site = "failure" /\ sent[1].transport = "ok"

(* ------------------------------- C10 ----------------------------------- *)
\* C10: once the loop is entered the process never terminates, whatever the
\* outcomes of fetch, validation, interpretation and sends: every cycle runs to
\* its sleep and is followed by another cycle (up to the modelled number of
\* cycles).
C10_LoopNeverTerminates ==
    /\ [](cycle >= 1 => pc \notin {"exited", "crashed", "finally_raising"})
    /\ (cycle >= 1) ~> (cycle = MaxCycles /\ pc = "fetch")

C10_Witness ==
    cycle = 2 /\ prev.raised /\ prev.sendFailed /\ pc \in {"check", "except"}

(* ------------------------------- C11 ----------------------------------- *)
FetchSucceeded == cycle >= 1 /\ Fetched(response)

ValidRecord(h) ==
    /\ h.tag = "dict"
    /\ {"homework_name", "status"} \subseteq DOMAIN h.d
    /\ h.d["homework_name"].tag = "str"
    /\ h.d["status"].tag = "str"
    /\ h.d["status"].s \in {"approved", "reviewing", "rejected"}

ExpectedVerdict(status) ==
    CASE status = "approved" -> "Rabota proverena: revyueru vsyo ponravilos. Ura!"
      [] status = "reviewing" -> "Rabota vzyata na proverku revyuerom."
      [] status = "rejected" -> "Rabota proverena: u revyuera est zamechaniya."

\* C12: for every record with a non-null homework_name and a status among
\* approved, reviewing, rejected, parse_status returns the fixed prefix, the
\* name in double quotes, ". " and the verdict text of that status; the verdict
\* table is the same in every state.
C12_MessageFormat ==
    /\ verdicts = HOMEWORK_VERDICTS
    /\ (ValidRecord(homework) /\ pc # "parse") =>
          /\ parsed /\ ~Raised
          /\ message = Str("Izmenilsya status proverki raboty \""
                           \o homework.d["homework_name"].s \o "\". "
                           \o ExpectedVerdict(homework.d["status"].s))
    /\ (homework = HwApproved /\ pc # "parse") =>
          message.s = "Izmenilsya status proverki raboty \"hw1\". Rabota proverena: revyueru vsyo ponravilos. Ura!"

C12_Witness ==
    /\ homework = HwApproved /\ pc = "notify"
    /\ message.s = "Izmenilsya status proverki raboty \"hw1\". Rabota proverena: revyueru vsyo ponravilos. Ura!"

(* ------------------------------- C13 ----------------------------------- *)
\* the record handed to parse_status in the current cycle, once it has run
Interpreted(h) == parsed /\ pc # "parse" /\ h.tag = "dict"
NameMissing(h) == DictGet(h.d, "homework_name") = None
StatusMissing(h) == "status" \notin DOMAIN h.d
StatusUnknown(h) ==
    /\ ~StatusMissing(h)
    /\ ~(h.d["status"].tag = "str"
         /\ h.d["status"].s \in {"approved", "reviewing", "rejected"})
UnknownStatusKinds == {"SystemError"}

\* C13: parse_status raises a schema error when homework_name is missing or
\* null (whatever the status) and when status is missing, raises an unknown
\* status error, of a kind that is not a schema error, when status is present
\* but not approved, reviewing or rejected, and produces no message in any of
\* these cases.
C13_ParseErrors ==
    /\ UnknownStatusKinds \cap SchemaErrorKinds = {}
    /\ (Interpreted(homework) /\ NameMissing(homework)) =>
          (Raised /\ error.kind \in SchemaErrorKinds)
    /\ (Interpreted(homework) /\ ~NameMissing(homework) /\ StatusMissing(homework)) =>
          (Raised /\ error.kind \in SchemaErrorKinds)
    /\ (Interpreted(homework) /\ ~NameMissing(homework) /\ StatusUnknown(homework)) =>
          (Raised /\ error.kind \in UnknownStatusKinds)
    /\ (Interpreted(homework)
        /\ (NameMissing(homework) \/ StatusMissing(homework) \/ StatusUnknown(homework))) =>
          ("status" \notin SitesSent /\ pc \in {"except", "finally", "fetch"})

(* ------------------------------- C14 ----------------------------------- *)
Replied == cycle >= 1 /\ api_reply # NoValue
HttpSuccess(net) == net.transport = "ok" /\ net.status = HTTP_OK
Decodes(net) == net.body # NotJson
\* The spec's UpstreamError is what get_api_answer raises for a transport
\* failure or a non-200 status: a plain Exception.
UpstreamErrorKinds == {"Exception"}
FetchRaised == Raised /\ response = NoValue

\* C14: get_api_answer returns the decoded body exactly when the request got
\* HTTP 200 and the body decodes; a transport failure and a non-200 status
\* raise an upstream error; a body that does not decode raises a decode error,
\* of a kind that is neither the upstream one nor a schema one.
C14_FetchOutcomes ==
    Replied =>
        /\ (HttpSuccess(api_reply) /\ Decodes(api_reply)) =>
              (response = api_reply.body /\ ~FetchRaised)
        /\ ~(HttpSuccess(api_reply) /\ Decodes(api_reply)) => FetchRaised
        /\ ~HttpSuccess(api_reply) => error.kind \in UpstreamErrorKinds
        /\ (HttpSuccess(api_reply) /\ ~Decodes(api_reply)) =>
              error.kind \notin (UpstreamErrorKinds \cup SchemaErrorKinds)
        /\ UpstreamErrorKinds \cap SchemaErrorKinds = {}

(* ------------------------------- C15 ----------------------------------- *)
Validated == cycle >= 1 /\ Fetched(response) /\ pc # "check"
ErrorIs(kind, text) == error = [kind |-> kind, text |-> text]

\* C15: check_response applies its checks in the order not a mapping, missing
\* homeworks, missing current_date, homeworks not a list, and reports the
\* first that fails; when all pass it returns the sentinel None for an empty
\* list and otherwise element 0 of homeworks.
C15_CheckOrder ==
    Validated =>
        /\ response.tag # "dict" =>
              ErrorIs("TypeError", "Poluchennyi otvet ne yavlyaetsya slovarem.")
        /\ (response.tag = "dict" /\ "homeworks" \notin DOMAIN response.d) =>
              ErrorIs("KeyError",
                      "V otvete otsutstvuet informatsiya o domashnikh zadaniyakh.")
        /\ (response.tag = "dict" /\ "homeworks" \in DOMAIN response.d
            /\ "current_date" \notin DOMAIN response.d) =>
              ErrorIs("KeyError", "V otvete otsutstvuet informatsiya o tekushchei date.")
        /\ (HasKeys(response) /\ response.d["homeworks"].tag # "list") =>
              ErrorIs("TypeError", "Znachenie klyucha homeworks ne yavlyaetsya spiskom.")
        /\ EmptyHomeworks(response) => homework = None
        /\ NonEmptyHomeworks(response) => homework = response.d["homeworks"].items[1]
        /\ WellFormed(response) => error.kind \notin {"IndexError"}

C15_Witness ==
    /\ response = Dict(EmptyMap) /\ pc = "except"
    /\ ErrorIs("KeyError", "V otvete otsutstvuet informatsiya o domashnikh zadaniyakh.")

(* ------------------------------- C16 ----------------------------------- *)
\* C16: the cursor changes only in main's own assignments (lines 135 and 145),
\* which set it to the current time, never to an earlier value; every other
\* step leaves it unchanged; each fetch sends the rounded value of the cursor
\* as it stands, the one of line 135 for the first fetch.
C16_CursorOwnedByLoop ==
    [][ /\ (timestamp' # timestamp) =>
              /\ pc \in {"init_timestamp", "advance"}
              /\ timestamp' = clock
              /\ timestamp' > timestamp
        /\ pc \in {"fetch", "check", "parse", "notify", "except", "finally",
                   "finally_raising", "start", "make_bot", "startup_send"} =>
              timestamp' = timestamp
        /\ (cycle' # cycle) =>
              /\ fetch_ts' = timestamp /\ timestamp' = timestamp
              /\ from_date' = RoundHalfEven(timestamp)
              /\ 2 * TicksPerSec * from_date' - 2 * timestamp \in
                    (-TicksPerSec)..TicksPerSec
        /\ (pc = "init_timestamp") => (cycle = 0 /\ timestamp' = clock)
      ]_vars

C16_Witness ==
    /\ cycle = 2 /\ ~prev.raised
    /\ fetch_ts > prev.timestamp /\ from_date > prev.from_date
    /\ timestamp = fetch_ts

(* ------------------------------- C17 ----------------------------------- *)
\* C17: a cycle makes at most one send attempt: never a status notification
\* and a failure notification both, and a status notification whose send
\* failed is not followed by a failure notification.
C17_OneSendPerCycle ==
    /\ Len(sent) <= 1
    /\ ~({"status", "failure"} \subseteq SitesSent)
    /\ (\E i \in 1..Len(sent) :
            sent[i].site = "status" /\ sent[i].transport = "TelegramError") =>
          (sent[Len(sent)].site = "status" /\ pc # "except")

C17_Witness ==
    /\ pc = "fetch" /\ cycle >= 1
    /\ Len(sent) = 1 /\ sent[1].site = "status" /\ sent[1].transport = "TelegramError"

(* ------------------------------- C18 ----------------------------------- *)
BeforeStartupSend == pc \in {"start", "make_bot", "startup_send"}
CheckPassed == pc # "start" /\ pc # "exited"

====
